---- MODULE Spec2Model ----
(***************************************************************************)
(* Model of the classroom administration site (src/main.py): session      *)
(* login, role-gated access and CRUD of classroom records.  Every route   *)
(* handler is an operator from the state before the request and the       *)
(* request's inputs to the state after it and the response; every action  *)
(* issues one request.  The user and classroom stores (user_db,           *)
(* classroom_db) are imported by main.py and modelled from their          *)
(* documented contract.                                                   *)
(***************************************************************************)
EXTENDS Integers, FiniteSets, Sequences, TLC

VARIABLES users, classrooms, nextId, session, req, resp, scen

vars == <<users, classrooms, nextId, session, req, resp, scen>>

(* ---------------------------------------------------------------------- *)
(* Bounds and input domains                                               *)
(* ---------------------------------------------------------------------- *)

\* number of classroom ids the store hands out in a run
MaxClassrooms == 1

\* Python's None, and a dictionary key that is absent (dict.get gives None)
NoneVal == "<None>"

Roles == {"Admin", "Student"}
UserIds == {"alice", "bob"}
Passwords == {"pw1", "pw2"}
\* form inputs include the empty string
IdInputs == UserIds \cup {""}
PwInputs == Passwords \cup {""}
Names == {"Lab1"}
Locations == {"Bldg A"}
Capacities == {30}
\* ids a request can name: those handed out and one that never is
ClassroomIds == 1..(MaxClassrooms + 1)

(* ---------------------------------------------------------------------- *)
(* Values                                                                 *)
(* ---------------------------------------------------------------------- *)

\* get_user's None
NoUser == [password |-> NoneVal, role |-> NoneVal]
\* get_current_user's None
NoCurrent == [user_id |-> NoneVal, role |-> NoneVal]
\* get_classroom's None
NoClassroom == [name |-> NoneVal, location |-> NoneVal, capacity |-> 0,
                equipment |-> <<>>]
EmptySession == [user_id |-> NoneVal, role |-> NoneVal]
EmptyUsers == [u \in {} |-> NoUser]
EmptyClassrooms == [i \in {} |-> NoClassroom]
NoError == [msg |-> NoneVal, arg |-> NoneVal]

ErrMissing == [msg |-> "id and password are both required", arg |-> NoneVal]
ErrDuplicate(user_id) == [msg |-> "id already in use", arg |-> user_id]
ErrLogin == [msg |-> "id or password is not correct", arg |-> NoneVal]
ErrAuth == [msg |-> "login required", arg |-> NoneVal]
ErrAdmin == [msg |-> "admin role required", arg |-> NoneVal]
ErrNotFound == [msg |-> "classroom not found", arg |-> NoneVal]

RedirectResponse(url, code) ==
    [status |-> code, url |-> url, view |-> NoneVal, error |-> NoError,
     user |-> NoCurrent, classrooms |-> EmptyClassrooms,
     classroom |-> NoClassroom, mode |-> NoneVal]

TemplateResponse(view, error, user, all, classroom, mode) ==
    [status |-> 200, url |-> NoneVal, view |-> view, error |-> error,
     user |-> user, classrooms |-> all, classroom |-> classroom,
     mode |-> mode]

HTTPException(code, detail) ==
    [status |-> code, url |-> NoneVal, view |-> NoneVal, error |-> detail,
     user |-> NoCurrent, classrooms |-> EmptyClassrooms,
     classroom |-> NoClassroom, mode |-> NoneVal]

\* a request: the handler called, the session its cookie carries, its inputs
NoRequest ==
    [op |-> "none", session |-> EmptySession, user_id |-> NoneVal, password |-> NoneVal,
     role |-> NoneVal, cid |-> 0, name |-> NoneVal, location |-> NoneVal,
     capacity |-> 0, projector |-> FALSE, whiteboard |-> FALSE]

(* ---------------------------------------------------------------------- *)
(* User store and classroom store                                         *)
(* ---------------------------------------------------------------------- *)

\* register(id, password, role) -> bool: refuses an id that is taken
register_user(db, user_id, password, role) ==
    IF user_id \in DOMAIN db
    THEN [ok |-> FALSE, users |-> db]
    ELSE [ok |-> TRUE,
          users |-> [u \in DOMAIN db \cup {user_id} |->
                        IF u = user_id
                        THEN [password |-> password, role |-> role]
                        ELSE db[u]]]

\* get(id) -> User | None
get_user(db, user_id) ==
    IF user_id \in DOMAIN db THEN db[user_id] ELSE NoUser

\* create(...) -> id: a fresh id, never handed out before
create_classroom(store, next, name, location, capacity, equip) ==
    [id |-> next,
     next |-> next + 1,
     classrooms |-> [i \in DOMAIN store \cup {next} |->
                        IF i = next
                        THEN [name |-> name, location |-> location,
                              capacity |-> capacity, equipment |-> equip]
                        ELSE store[i]]]

\* get(id) -> Classroom | None
get_classroom(store, classroom_id) ==
    IF classroom_id \in DOMAIN store THEN store[classroom_id] ELSE NoClassroom

\* list() -> all records
get_all_classrooms(store) == store

\* update(id, ...) -> bool: false when the id is not stored
update_classroom(store, classroom_id, name, location, capacity, equip) ==
    IF classroom_id \in DOMAIN store
    THEN [ok |-> TRUE,
          classrooms |-> [store EXCEPT ![classroom_id] =
                             [name |-> name, location |-> location,
                              capacity |-> capacity, equipment |-> equip]]]
    ELSE [ok |-> FALSE, classrooms |-> store]

\* delete(id) -> bool: false when the id is not stored
delete_classroom(store, classroom_id) ==
    IF classroom_id \in DOMAIN store
    THEN [ok |-> TRUE,
          classrooms |-> [i \in DOMAIN store \ {classroom_id} |-> store[i]]]
    ELSE [ok |-> FALSE, classrooms |-> store]

(* ---------------------------------------------------------------------- *)
(* Helpers of main.py                                                     *)
(* ---------------------------------------------------------------------- *)

\* what a handler leaves behind: the stores, the session and the response
Out(u, c, n, s, r) ==
    [users |-> u, classrooms |-> c, nextId |-> n, session |-> s, resp |-> r]

\* a handler that changes nothing and answers r
Same(r) == Out(users, classrooms, nextId, session, r)

\* `not user_id`: None and the empty string are falsy
Falsy(s) == s = NoneVal \/ s = ""

\* variant: trusts the role kept in the session
get_current_user_session_role(db, sess) ==
    LET user_id == sess.user_id
        user == get_user(db, user_id)
    IN  IF Falsy(user_id) THEN NoCurrent
        ELSE IF user # NoUser
             THEN [user_id |-> user_id, role |-> sess.role]
             ELSE NoCurrent

get_current_user(db, sess) ==
    LET user_id == sess.user_id
        user == get_user(db, user_id)
    IN  IF Falsy(user_id) THEN NoCurrent
        ELSE IF user # NoUser
             THEN [user_id |-> user_id, role |-> user.role]
             ELSE NoCurrent

\* exc = 0: returned normally with `user`; otherwise the HTTPException raised
require_auth(db, sess) ==
    LET user == get_current_user(db, sess)
    IN  IF user = NoCurrent
        THEN [exc |-> 401, detail |-> ErrAuth, user |-> NoCurrent]
        ELSE [exc |-> 0, detail |-> NoError, user |-> user]

\* variant: the role check is missing
require_admin_no_role_check(db, sess) == require_auth(db, sess)

require_admin(db, sess) ==
    LET auth == require_auth(db, sess)
    IN  IF auth.exc # 0 THEN auth
        ELSE IF auth.user.role # "Admin"
             THEN [exc |-> 403, detail |-> ErrAdmin, user |-> NoCurrent]
             ELSE auth

\* variant: every flag is stored, a clear one as false
equipment_full_map(projector, whiteboard) ==
    [k \in {"projector", "whiteboard"} |->
        IF k = "projector" THEN projector ELSE whiteboard]

\* the equipment dict built by the create and edit handlers
equipment(projector, whiteboard) ==
    LET e0 == [k \in {} |-> TRUE]
        e1 == IF projector THEN e0 @@ ("projector" :> TRUE) ELSE e0
        e2 == IF whiteboard THEN e1 @@ ("whiteboard" :> TRUE) ELSE e1
    IN  e2


(* ---------------------------------------------------------------------- *)
(* Route handlers: the outcome of one request in the current state        *)
(* ---------------------------------------------------------------------- *)

get_register_form ==
    LET user == get_current_user(users, session)
    IN  IF user # NoCurrent
        THEN Same(RedirectResponse("/", 302))
        ELSE Same(TemplateResponse("register.html", NoError, NoCurrent,
                                   EmptyClassrooms, NoClassroom, NoneVal))

\* variant: the result of register_user is ignored
post_register_unchecked(user_id, password, role) ==
    IF Falsy(user_id) \/ Falsy(password)
    THEN Same(TemplateResponse("register.html", ErrMissing, NoCurrent,
                               EmptyClassrooms, NoClassroom, NoneVal))
    ELSE Out(register_user(users, user_id, password, role).users,
             classrooms, nextId, session, RedirectResponse("/login", 303))

post_register(user_id, password, role) ==
    IF Falsy(user_id) \/ Falsy(password)
    THEN Same(TemplateResponse("register.html", ErrMissing, NoCurrent,
                               EmptyClassrooms, NoClassroom, NoneVal))
    ELSE LET reg == register_user(users, user_id, password, role)
         IN  IF reg.ok
             THEN Out(reg.users, classrooms, nextId, session,
                      RedirectResponse("/login", 303))
             ELSE Same(TemplateResponse("register.html",
                                        ErrDuplicate(user_id), NoCurrent,
                                        EmptyClassrooms, NoClassroom,
                                        NoneVal))

get_login_form ==
    LET user == get_current_user(users, session)
    IN  IF user # NoCurrent
        THEN Same(RedirectResponse("/", 302))
        ELSE Same(TemplateResponse("login.html", NoError, NoCurrent,
                                   EmptyClassrooms, NoClassroom, NoneVal))

\* variant: a role already in the session is kept
post_login_keep_role(user_id, password) ==
    LET user == get_user(users, user_id)
    IN  IF user = NoUser \/ user.password # password
        THEN Same(TemplateResponse("login.html", ErrLogin, NoCurrent,
                                   EmptyClassrooms, NoClassroom, NoneVal))
        ELSE Out(users, classrooms, nextId,
                 [user_id |-> user_id,
                  role |-> IF session.role # NoneVal THEN session.role
                           ELSE user.role],
                 RedirectResponse("/", 303))

\* variant: an unknown id gets an error of its own
post_login_leak(user_id, password) ==
    LET user == get_user(users, user_id)
    IN  IF user = NoUser
        THEN Same(TemplateResponse("login.html",
                                   [msg |-> "no such id", arg |-> user_id],
                                   NoCurrent, EmptyClassrooms, NoClassroom,
                                   NoneVal))
        ELSE IF user.password # password
        THEN Same(TemplateResponse("login.html", ErrLogin, NoCurrent,
                                   EmptyClassrooms, NoClassroom, NoneVal))
        ELSE Out(users, classrooms, nextId,
                 [user_id |-> user_id, role |-> user.role],
                 RedirectResponse("/", 303))

post_login(user_id, password) ==
    LET user == get_user(users, user_id)
    IN  IF user = NoUser \/ user.password # password
        THEN Same(TemplateResponse("login.html", ErrLogin, NoCurrent,
                                   EmptyClassrooms, NoClassroom, NoneVal))
        ELSE Out(users, classrooms, nextId,
                 [user_id |-> user_id, role |-> user.role],
                 RedirectResponse("/", 303))

\* variant: only user_id is removed from the session
logout_pop_user_id ==
    Out(users, classrooms, nextId, [session EXCEPT !.user_id = NoneVal],
        RedirectResponse("/login", 302))

logout ==
    Out(users, classrooms, nextId, EmptySession,
        RedirectResponse("/login", 302))

root ==
    LET user == get_current_user(users, session)
    IN  IF user = NoCurrent
        THEN Same(RedirectResponse("/login", 302))
        ELSE Same(TemplateResponse("index.html", NoError, user,
                                   EmptyClassrooms, NoClassroom, NoneVal))

list_classrooms ==
    LET auth == require_auth(users, session)
    IN  IF auth.exc # 0
        THEN Same(HTTPException(auth.exc, auth.detail))
        ELSE Same(TemplateResponse("classrooms.html", NoError,
                                   get_current_user(users, session),
                                   get_all_classrooms(classrooms),
                                   NoClassroom, NoneVal))

create_classroom_form ==
    LET auth == require_admin(users, session)
    IN  IF auth.exc # 0
        THEN Same(HTTPException(auth.exc, auth.detail))
        ELSE Same(TemplateResponse("classroom_form.html", NoError,
                                   get_current_user(users, session),
                                   EmptyClassrooms, NoClassroom, "create"))

\* variant: guarded by require_auth only
create_classroom_post_any_user(name, location, capacity, projector, whiteboard) ==
    LET auth == require_auth(users, session)
        made == create_classroom(classrooms, nextId, name, location,
                                 capacity, equipment(projector, whiteboard))
    IN  IF auth.exc # 0
        THEN Same(HTTPException(auth.exc, auth.detail))
        ELSE Out(users, made.classrooms, made.next, session,
                 RedirectResponse("/classrooms", 303))

create_classroom_post(name, location, capacity, projector, whiteboard) ==
    LET auth == require_admin(users, session)
        made == create_classroom(classrooms, nextId, name, location,
                                 capacity, equipment(projector, whiteboard))
    IN  IF auth.exc # 0
        THEN Same(HTTPException(auth.exc, auth.detail))
        ELSE Out(users, made.classrooms, made.next, session,
                 RedirectResponse("/classrooms", 303))

edit_classroom_form(classroom_id) ==
    LET auth == require_admin(users, session)
        classroom == get_classroom(classrooms, classroom_id)
    IN  IF auth.exc # 0
        THEN Same(HTTPException(auth.exc, auth.detail))
        ELSE IF classroom = NoClassroom
             THEN Same(HTTPException(404, ErrNotFound))
             ELSE Same(TemplateResponse("classroom_form.html", NoError,
                                        get_current_user(users, session),
                                        EmptyClassrooms, classroom, "edit"))

\* variant: the result of update_classroom is ignored
edit_classroom_post_unchecked(classroom_id, name, location, capacity, projector, whiteboard) ==
    LET auth == require_admin(users, session)
        upd == update_classroom(classrooms, classroom_id, name, location,
                                capacity, equipment(projector, whiteboard))
    IN  IF auth.exc # 0
        THEN Same(HTTPException(auth.exc, auth.detail))
        ELSE Out(users, upd.classrooms, nextId, session,
                 RedirectResponse("/classrooms", 303))

edit_classroom_post(classroom_id, name, location, capacity, projector, whiteboard) ==
    LET auth == require_admin(users, session)
        upd == update_classroom(classrooms, classroom_id, name, location,
                                capacity, equipment(projector, whiteboard))
    IN  IF auth.exc # 0
        THEN Same(HTTPException(auth.exc, auth.detail))
        ELSE IF ~upd.ok
             THEN Same(HTTPException(404, ErrNotFound))
             ELSE Out(users, upd.classrooms, nextId, session,
                      RedirectResponse("/classrooms", 303))

\* variant: the record is looked up but not removed
delete_classroom_post_keep(classroom_id) ==
    LET auth == require_admin(users, session)
        del == delete_classroom(classrooms, classroom_id)
    IN  IF auth.exc # 0
        THEN Same(HTTPException(auth.exc, auth.detail))
        ELSE IF ~del.ok
             THEN Same(HTTPException(404, ErrNotFound))
             ELSE Same(RedirectResponse("/classrooms", 303))

delete_classroom_post(classroom_id) ==
    LET auth == require_admin(users, session)
        del == delete_classroom(classrooms, classroom_id)
    IN  IF auth.exc # 0
        THEN Same(HTTPException(auth.exc, auth.detail))
        ELSE IF ~del.ok
             THEN Same(HTTPException(404, ErrNotFound))
             ELSE Out(users, del.classrooms, nextId, session,
                      RedirectResponse("/classrooms", 303))

(* ---------------------------------------------------------------------- *)
(* Observer of the end-to-end scenario: register an Admin, log in,        *)
(* create a classroom, list, delete it, list.  step counts how many of    *)
(* the most recent requests were the scenario's steps in order; ok tells  *)
(* whether each of them had the outcome the scenario expects.             *)
(* ---------------------------------------------------------------------- *)

ScenIdle ==
    [step |-> 0, ok |-> TRUE, uid |-> NoneVal, pw |-> NoneVal, cid |-> 0,
     room |-> NoClassroom]

Observe(r, out) ==
    LET fresh == DOMAIN out.classrooms \ DOMAIN classrooms
    IN  IF /\ r.op = "post_register"
           /\ r.role = "Admin"
           /\ ~Falsy(r.user_id)
           /\ ~Falsy(r.password)
           /\ r.user_id \notin DOMAIN users
        THEN [ScenIdle EXCEPT !.step = 1, !.uid = r.user_id,
                              !.pw = r.password,
                              !.ok = /\ out.resp.status = 303
                                     /\ out.resp.url = "/login"]
        ELSE IF /\ scen.step = 1
                /\ r.op = "post_login"
                /\ r.user_id = scen.uid
                /\ r.password = scen.pw
        THEN [scen EXCEPT !.step = 2,
                          !.ok = scen.ok /\ out.resp.status = 303]
        ELSE IF scen.step = 2 /\ r.op = "create_classroom_post"
        THEN [scen EXCEPT !.step = 3,
                          !.cid = IF fresh = {} THEN 0
                                  ELSE CHOOSE i \in fresh : TRUE,
                          !.room = [name |-> r.name,
                                    location |-> r.location,
                                    capacity |-> r.capacity,
                                    equipment |->
                                        [k \in {f \in {"projector",
                                                       "whiteboard"} :
                                                  r[f]} |-> TRUE]],
                          !.ok = /\ scen.ok
                                 /\ out.resp.status = 303
                                 /\ Cardinality(fresh) = 1]
        ELSE IF scen.step = 3 /\ r.op = "list_classrooms"
        THEN [scen EXCEPT !.step = 4,
                          !.ok = /\ scen.ok
                                 /\ out.resp.status = 200
                                 /\ scen.cid \in DOMAIN out.resp.classrooms
                                 /\ out.resp.classrooms[scen.cid] = scen.room]
        ELSE IF /\ scen.step = 4
                /\ r.op = "delete_classroom_post"
                /\ r.cid = scen.cid
        THEN [scen EXCEPT !.step = 5,
                          !.ok = scen.ok /\ out.resp.status = 303]
        ELSE IF scen.step = 5 /\ r.op = "list_classrooms"
        THEN [scen EXCEPT !.step = 6,
                          !.ok = /\ scen.ok
                                 /\ out.resp.status = 200
                                 /\ scen.cid \notin
                                        DOMAIN out.resp.classrooms]
        ELSE ScenIdle

(* ---------------------------------------------------------------------- *)
(* State machine                                                          *)
(* ---------------------------------------------------------------------- *)

\* The session lives in a cookie signed with a fixed key and kept by the
\* browser, so a process that starts with empty stores can be sent the
\* session of an earlier run.
Cookies ==
    {EmptySession} \cup
    {[user_id |-> u, role |-> r] : u \in UserIds, r \in Roles}

NoResponse == HTTPException(0, NoError)

Init ==
    /\ users = EmptyUsers
    /\ classrooms = EmptyClassrooms
    /\ nextId = 1
    /\ session \in Cookies
    /\ req = [NoRequest EXCEPT !.session = session]
    /\ resp = NoResponse
    /\ scen = ScenIdle

Apply(r, out) ==
    /\ users' = out.users
    /\ classrooms' = out.classrooms
    /\ nextId' = out.nextId
    /\ session' = out.session
    /\ req' = [r EXCEPT !.session = session]
    /\ resp' = out.resp
    /\ scen' = Observe(r, out)

GetRegisterForm ==
    Apply([NoRequest EXCEPT !.op = "get_register_form"], get_register_form)

PostRegister ==
    \E user_id \in IdInputs, password \in PwInputs, role \in Roles :
        Apply([NoRequest EXCEPT !.op = "post_register",
                                !.user_id = user_id,
                                !.password = password, !.role = role],
              post_register(user_id, password, role))

GetLoginForm ==
    Apply([NoRequest EXCEPT !.op = "get_login_form"], get_login_form)

PostLogin ==
    \E user_id \in IdInputs, password \in PwInputs :
        Apply([NoRequest EXCEPT !.op = "post_login", !.user_id = user_id,
                                !.password = password],
              post_login(user_id, password))

Logout ==
    Apply([NoRequest EXCEPT !.op = "logout"], logout)

Root ==
    Apply([NoRequest EXCEPT !.op = "root"], root)

ListClassrooms ==
    Apply([NoRequest EXCEPT !.op = "list_classrooms"], list_classrooms)

CreateClassroomForm ==
    Apply([NoRequest EXCEPT !.op = "create_classroom_form"],
          create_classroom_form)

CreateClassroomPost ==
    \E name \in Names, location \in Locations, capacity \in Capacities,
       projector \in BOOLEAN, whiteboard \in BOOLEAN :
        /\ require_admin(users, session).exc = 0 => nextId <= MaxClassrooms
        /\ Apply([NoRequest EXCEPT !.op = "create_classroom_post",
                                   !.name = name, !.location = location,
                                   !.capacity = capacity,
                                   !.projector = projector,
                                   !.whiteboard = whiteboard],
                 create_classroom_post(name, location, capacity, projector,
                                       whiteboard))

EditClassroomForm ==
    \E classroom_id \in ClassroomIds :
        Apply([NoRequest EXCEPT !.op = "edit_classroom_form",
                                !.cid = classroom_id],
              edit_classroom_form(classroom_id))

EditClassroomPost ==
    \E classroom_id \in ClassroomIds, name \in Names,
       location \in Locations, capacity \in Capacities,
       projector \in BOOLEAN, whiteboard \in BOOLEAN :
        Apply([NoRequest EXCEPT !.op = "edit_classroom_post",
                                !.cid = classroom_id,
                                !.name = name, !.location = location,
                                !.capacity = capacity,
                                !.projector = projector,
                                !.whiteboard = whiteboard],
              edit_classroom_post(classroom_id, name, location, capacity,
                                  projector, whiteboard))

DeleteClassroomPost ==
    \E classroom_id \in ClassroomIds :
        Apply([NoRequest EXCEPT !.op = "delete_classroom_post",
                                !.cid = classroom_id],
              delete_classroom_post(classroom_id))

Next ==
    \/ GetRegisterForm
    \/ PostRegister
    \/ GetLoginForm
    \/ PostLogin
    \/ Logout
    \/ Root
    \/ ListClassrooms
    \/ CreateClassroomForm
    \/ CreateClassroomPost
    \/ EditClassroomForm
    \/ EditClassroomPost
    \/ DeleteClassroomPost

Spec == Init /\ [][Next]_vars

TypeOK ==
    /\ DOMAIN users \subseteq UserIds
    /\ \A u \in DOMAIN users :
           users[u].password \in Passwords /\ users[u].role \in Roles
    /\ DOMAIN classrooms \subseteq 1..(nextId - 1)
    /\ nextId \in 1..(MaxClassrooms + 1)
    /\ session \in Cookies

(* ---------------------------------------------------------------------- *)
(* Properties                                                             *)
(* ---------------------------------------------------------------------- *)

AdminOps ==
    {"create_classroom_form", "create_classroom_post", "edit_classroom_form",
     "edit_classroom_post", "delete_classroom_post"}
ClassroomOps == AdminOps \cup {"list_classrooms"}
MutationOps ==
    {"create_classroom_post", "edit_classroom_post", "delete_classroom_post"}
Flags == {"projector", "whiteboard"}

\* the session names a user of the store
Known == session.user_id \in DOMAIN users
StoredRole == users[session.user_id].role
\* the submitted flags that are true
Checked(r) == {f \in Flags : r[f]}

\* C1: on every admin classroom endpoint a request without a user_id in its
\* session is answered 401 and a request of an existing Student is answered
\* 403, whether or not the classroom id exists.
C1_AdminGuard ==
    [][req'.op \in AdminOps =>
          /\ session.user_id = NoneVal => resp'.status = 401
          /\ (Known /\ StoredRole = "Student") => resp'.status = 403]_vars

C1_Witness ==
    /\ req.op = "delete_classroom_post"
    /\ req.cid \notin DOMAIN classrooms
    /\ req.session.user_id \in DOMAIN users
    /\ users[req.session.user_id].role = "Student"
    /\ resp.status = 403

\* C2: the classroom store changes only in a create, edit or delete request
\* of an existing Admin; a request answered 401 or 403 leaves it unchanged;
\* the listing answers 200 to any authenticated user and changes nothing.
C2_OnlyAdminMutates ==
    [][/\ (classrooms' # classrooms \/ nextId' # nextId) =>
              /\ req'.op \in MutationOps
              /\ Known
              /\ StoredRole = "Admin"
       /\ resp'.status \in {401, 403} =>
              classrooms' = classrooms /\ nextId' = nextId
       /\ req'.op = "list_classrooms" =>
              /\ classrooms' = classrooms /\ nextId' = nextId
              /\ Known => resp'.status = 200]_vars

C2_Witness ==
    /\ req.op = "list_classrooms"
    /\ resp.status = 200
    /\ resp.user.role = "Student"
    /\ DOMAIN classrooms # {}

\* C3: for an Admin, POST edit and POST delete of an id that is not stored
\* answer 404 and leave every record as it was; of a stored id they
\* redirect 303 to /classrooms.
C3_MissingIdIs404 ==
    [][(/\ req'.op \in {"edit_classroom_post", "delete_classroom_post"}
        /\ Known
        /\ StoredRole = "Admin") =>
          IF req'.cid \notin DOMAIN classrooms
          THEN resp'.status = 404 /\ classrooms' = classrooms
          ELSE resp'.status = 303 /\ resp'.url = "/classrooms"]_vars

C3_Witness ==
    /\ req.op = "edit_classroom_post"
    /\ resp.status = 404
    /\ DOMAIN classrooms # {}

\* what a successful registration adds
Registered(r) == [password |-> r.password, role |-> r.role]
RegisterAdds(r) ==
    /\ DOMAIN users' = DOMAIN users \cup {r.user_id}
    /\ users'[r.user_id] = Registered(r)
    /\ \A u \in DOMAIN users : users'[u] = users[u]
    /\ resp'.status = 303
    /\ resp'.url = "/login"

\* C4 as stated: registering an id that is taken re-renders the form with
\* the duplicate-id error, whatever password and role are supplied, and
\* leaves the record; a fresh non-empty id with a non-empty password is
\* added and redirects 303 to /login.
C4_Original ==
    [][req'.op = "post_register" =>
          /\ req'.user_id \in DOMAIN users =>
                 /\ resp'.status = 200
                 /\ resp'.url = NoneVal
                 /\ resp'.error = ErrDuplicate(req'.user_id)
                 /\ users' = users
          /\ (/\ req'.user_id \notin DOMAIN users
              /\ req'.user_id # ""
              /\ req'.password # "") => RegisterAdds(req')]_vars

\* C4 amended: registering an id that is taken re-renders the form (200, no
\* redirect) and leaves the record, whatever password and role are
\* supplied; the error is the duplicate-id error when the password is not
\* empty and the missing-field error when it is empty.  A fresh non-empty id
\* with a non-empty password is added and redirects 303 to /login.
C4_DuplicateRegister ==
    [][req'.op = "post_register" =>
          /\ req'.user_id \in DOMAIN users =>
                 /\ resp'.status = 200
                 /\ resp'.url = NoneVal
                 /\ resp'.view = "register.html"
                 /\ resp'.error = IF req'.password = "" THEN ErrMissing
                                  ELSE ErrDuplicate(req'.user_id)
                 /\ users' = users
          /\ (/\ req'.user_id \notin DOMAIN users
              /\ req'.user_id # ""
              /\ req'.password # "") => RegisterAdds(req')]_vars

C4_Witness ==
    /\ req.op = "post_register"
    /\ resp.error = ErrDuplicate(req.user_id)
    /\ resp.status = 200
    /\ req.user_id \in DOMAIN users
    /\ users[req.user_id].password # req.password
    /\ users[req.user_id].role # req.role

\* C5: a login with a stored id and its stored password writes that id and
\* the role of the stored record into the session and redirects 303 to /,
\* also over the session of another user; the request carries no role.
C5_LoginStoresRole ==
    [][(/\ req'.op = "post_login"
        /\ req'.user_id \in DOMAIN users
        /\ users[req'.user_id].password = req'.password) =>
          /\ session' = [user_id |-> req'.user_id,
                         role |-> users[req'.user_id].role]
          /\ req'.role = NoneVal
          /\ resp'.status = 303
          /\ resp'.url = "/"]_vars

C5_Witness ==
    /\ req.op = "post_login"
    /\ resp.status = 303
    /\ req.session.user_id \in UserIds \ {req.user_id}
    /\ req.session.role # session.role
    /\ session.user_id = req.user_id

\* C6: a login with an unknown id and a login with a known id and a wrong
\* password give the same response, a 200 form with the generic error and
\* no redirect, and neither writes to the session.
C6_LoginNoLeak ==
    \A u1 \in IdInputs, u2 \in IdInputs, p1 \in PwInputs, p2 \in PwInputs :
        (/\ u1 \notin DOMAIN users
         /\ u2 \in DOMAIN users
         /\ users[u2].password # p2) =>
            LET a == post_login(u1, p1)
                b == post_login(u2, p2)
            IN  /\ a.resp = b.resp
                /\ a.resp.status = 200
                /\ a.resp.url = NoneVal
                /\ a.resp.error = ErrLogin
                /\ a.session = session
                /\ b.session = session

C6_Witness ==
    /\ req.op = "post_login"
    /\ req.user_id \in DOMAIN users
    /\ users[req.user_id].password # req.password
    /\ resp.error = ErrLogin
    /\ session.user_id \in UserIds
    /\ DOMAIN users # UserIds

\* the equipment holds exactly the checked flags, each mapped to true
ExactlyChecked(e, r) ==
    /\ DOMAIN e = Checked(r)
    /\ \A k \in DOMAIN e : e[k] = TRUE

\* C7: the equipment stored by an Admin's create or edit has exactly the
\* submitted true flags as keys, each mapped to true; an edit replaces the
\* previous equipment.
C7_EquipmentExact ==
    [][(Known /\ StoredRole = "Admin") =>
          /\ req'.op = "create_classroom_post" =>
                 \E i \in DOMAIN classrooms' \ DOMAIN classrooms :
                     ExactlyChecked(classrooms'[i].equipment, req')
          /\ (/\ req'.op = "edit_classroom_post"
              /\ req'.cid \in DOMAIN classrooms) =>
                 /\ req'.cid \in DOMAIN classrooms'
                 /\ ExactlyChecked(classrooms'[req'.cid].equipment,
                                   req')]_vars

C7_Witness ==
    /\ req.op = "edit_classroom_post"
    /\ resp.status = 303
    /\ ~req.projector
    /\ req.whiteboard
    /\ DOMAIN classrooms[req.cid].equipment = {"whiteboard"}

\* C8: in the scenario register an Admin, log in, create, list, delete,
\* list every step succeeds, the first listing holds the created classroom
\* as submitted and the second does not hold it; a listing shows exactly
\* the stored classrooms, a classroom enters the store only by a successful
\* create and leaves it only by a successful delete of its id.
C8_Scenario ==
    [][/\ scen'.ok
       /\ (req'.op = "list_classrooms" /\ resp'.status = 200) =>
              resp'.classrooms = classrooms
       /\ \A i \in DOMAIN classrooms' \ DOMAIN classrooms :
              req'.op = "create_classroom_post" /\ resp'.status = 303
       /\ \A i \in DOMAIN classrooms \ DOMAIN classrooms' :
              /\ req'.op = "delete_classroom_post"
              /\ req'.cid = i
              /\ resp'.status = 303
       /\ (req'.op = "create_classroom_post" /\ resp'.status = 303) =>
              DOMAIN classrooms' # DOMAIN classrooms
       /\ (req'.op = "delete_classroom_post" /\ resp'.status = 303) =>
              /\ req'.cid \in DOMAIN classrooms
              /\ req'.cid \notin DOMAIN classrooms']_vars

C8_Witness ==
    /\ scen.step = 6
    /\ scen.ok
    /\ scen.room.name = "Lab1"
    /\ DOMAIN scen.room.equipment = {"projector"}

\* C9: logout empties the session and redirects 302 to /login from any
\* state without touching the stores; a second logout changes nothing and
\* answers the same; an empty session stays empty until a successful
\* login, and with an empty session every /classrooms endpoint answers 401
\* and GET / redirects 302 to /login.
C9_Logout ==
    /\ [](req.op = "logout" =>
             logout = Out(users, classrooms, nextId, session, resp))
    /\ [][/\ req'.op = "logout" =>
                 /\ session' = EmptySession
                 /\ resp'.status = 302
                 /\ resp'.url = "/login"
                 /\ users' = users
                 /\ classrooms' = classrooms
                 /\ nextId' = nextId
          /\ (session = EmptySession /\ session' # EmptySession) =>
                 req'.op = "post_login" /\ resp'.status = 303
          /\ session = EmptySession =>
                 /\ req'.op \in ClassroomOps => resp'.status = 401
                 /\ req'.op = "root" =>
                        resp'.status = 302 /\ resp'.url = "/login"]_vars

C9_Witness ==
    /\ req.op = "logout"
    /\ req.session.user_id \in UserIds \ DOMAIN users
    /\ session = EmptySession
    /\ resp.status = 302

\* C10: authorization uses the role of the stored record of
\* session.user_id, never the role kept in the session: an admin endpoint
\* admits the request exactly when the stored role is Admin, and a session
\* whose user_id names no stored user is unauthenticated (401 on guarded
\* endpoints, GET / redirects to /login).
C10_StoredRoleDecides ==
    [][/\ req'.op \in AdminOps =>
              /\ resp'.status \notin {401, 403} <=>
                     (Known /\ StoredRole = "Admin")
              /\ (Known /\ StoredRole # "Admin") => resp'.status = 403
       /\ ~Known =>
              /\ req'.op \in ClassroomOps => resp'.status = 401
              /\ req'.op = "root" =>
                     resp'.status = 302 /\ resp'.url = "/login"]_vars

C10_Witness ==
    /\ req.op = "create_classroom_form"
    /\ req.session.user_id \in DOMAIN users
    /\ req.session.role = "Admin"
    /\ users[req.session.user_id].role = "Student"
    /\ resp.status = 403
====
